---- MODULE Spec2Model ----
(***************************************************************************)
(* Model of tools/gen_third_party.py: the generator of the third-party     *)
(* licence report.  main() is a sequential pipeline                        *)
(*   run_cargo_metadata -> collect_packages -> collect_resolve_nodes ->    *)
(*   direct_deps_of_roots -> render_markdown -> write_text + print.        *)
(*                                                                         *)
(* Conventions.                                                            *)
(*  - Python None is the value None.                                       *)
(*  - Text that is compared or sorted (names, versions, file names) is a   *)
(*    sequence of code points; other strings are TLA+ strings.             *)
(*  - A path is a sequence of components; an absolute path starts with     *)
(*    the component "/".  The empty path models "no path" (None or "").    *)
(*  - File contents are run-length encoded: a sequence of runs [b, n],     *)
(*    n >= 1 copies of the byte (or code point) b, adjacent runs having    *)
(*    different b.  This keeps the real 512000 byte ceiling checkable.     *)
(***************************************************************************)
EXTENDS Integers, Sequences, FiniteSets, TLC

VARIABLES
    args,          \* parsed command line: repo, output, include_dev/build/optional
    cargo,         \* the resolver subprocess: [returncode, stdout (the JSON document)]
    symlinks,      \* file system: symbolic links, path -> resolved target
    files,         \* file system: directory entries in listing order
    pc,            \* position of main()
    repo,          \* main: repo = Path(args.repo).resolve()
    meta,          \* main: meta
    pkgs,          \* main: pkgs
    nodes,         \* main: nodes
    iter_order,    \* direct_deps_of_roots: order in which the set direct_ids is iterated
    deps,          \* main: deps
    md,            \* main: md, the rendered document
    out_file,      \* file system: the writes of the output file, [path, text]
    reads,         \* render_markdown: the calls of safe_read_text, in order
    stdout,        \* lines printed on standard output
    stderr,        \* diagnostic printed by SystemExit, None if none
    exit_status,   \* exit status of the process, None while running
    cargo_calls,   \* number of times the resolver subprocess was spawned
    stages         \* sequence of the pipeline stages that completed

vars == <<args, cargo, symlinks, files, pc, repo, meta, pkgs, nodes, iter_order,
          deps, md, reads, out_file, stdout, stderr, exit_status, cargo_calls, stages>>

None == "None"

-----------------------------------------------------------------------------
(* Sequences and text *)

Range(s) == {s[i] : i \in 1..Len(s)}

Permutations_of(S) ==
    {f \in [1..Cardinality(S) -> S] : \A i, j \in 1..Cardinality(S) : f[i] = f[j] => i = j}

\* str.lower() on one code point (ASCII letters)
LowerChar(c) == IF c >= 65 /\ c <= 90 THEN c + 32 ELSE c

Lower(s) == [i \in 1..Len(s) |-> LowerChar(s[i])]

\* str < str: lexicographic on code points
RECURSIVE StrLess(_, _)
StrLess(s, t) ==
    IF t = <<>> THEN FALSE
    ELSE IF s = <<>> THEN TRUE
    ELSE IF s[1] # t[1] THEN s[1] < t[1]
    ELSE StrLess(Tail(s), Tail(t))

\* s.startswith(p)
StartsWith(s, p) == Len(s) >= Len(p) /\ SubSeq(s, 1, Len(p)) = p

-----------------------------------------------------------------------------
(* pathlib *)

IsAbsolute(p) == Len(p) > 0 /\ p[1] = "/"

Parent(p) == IF Len(p) > 1 THEN SubSeq(p, 1, Len(p) - 1) ELSE p

Name(p) == p[Len(p)]

\* Path.resolve() of an absolute path: ".." pops a component (never the root),
\* a prefix that is a symbolic link is replaced by its target
RECURSIVE ResolveFrom(_, _, _)
ResolveFrom(acc, rest, links) ==
    IF rest = <<>> THEN acc
    ELSE LET c == Head(rest)
             nxt == IF c = ".." THEN Parent(acc)
                    ELSE IF c = "." THEN acc
                    ELSE LET q == Append(acc, c)
                         IN IF q \in DOMAIN links THEN links[q] ELSE q
         IN ResolveFrom(nxt, Tail(rest), links)

Resolve(p, links) == ResolveFrom(<<"/">>, Tail(p), links)

\* Path.relative_to(root) succeeds
IsRelativeTo(p, root) == StartsWith(p, root)

RelativeTo(p, root) == SubSeq(p, Len(root) + 1, Len(p))

\* is_within without resolve()
is_within_lexical(path, root, links) == IsRelativeTo(path, root)

is_within(path, root, links) ==
    IsRelativeTo(Resolve(path, links), Resolve(root, links))

-----------------------------------------------------------------------------
(* collect_packages, collect_resolve_nodes *)

\* Pkg built from one raw package entry p
MakePkg(p) ==
    [pkg_id        |-> p.id,
     name          |-> p.name,
     version       |-> p.version,
     manifest_path |-> p.manifest_path,
     license_expr  |-> p.license,
     license_file  |-> p.license_file,
     repository    |-> p.repository,
     source        |-> p.source]

\* out[pkg_id] = Pkg(...) in list order: a later entry with the same id wins
LastIndexOf(packages, id) ==
    CHOOSE i \in 1..Len(packages) :
        /\ packages[i].id = id
        /\ \A j \in (i + 1)..Len(packages) : packages[j].id # id

collect_packages(m) ==
    [id \in {m.packages[i].id : i \in 1..Len(m.packages)} |->
        MakePkg(m.packages[LastIndexOf(m.packages, id)])]

\* `if not resolve`: the key is missing ("absent"), null, or an empty object;
\* m.resolve = [shape, nodes], shape "object" being a non-empty JSON object
ResolveMissing(m) == m.resolve.shape \in {"absent", "null", "empty"}

LastNodeOf(ns, id) ==
    CHOOSE i \in 1..Len(ns) :
        /\ ns[i].id = id
        /\ \A j \in (i + 1)..Len(ns) : ns[j].id # id

collect_resolve_nodes(m) ==
    LET ns == m.resolve.nodes
    IN [id \in {ns[i].id : i \in 1..Len(ns)} |-> ns[LastNodeOf(ns, id)]]

-----------------------------------------------------------------------------
(* wanted_dep_kind, direct_deps_of_roots *)

\* wanted_dep_kind with the two flags swapped
wanted_dep_kind_swapped(dep_kind, include_dev, include_build) ==
    IF dep_kind = None \/ dep_kind = "normal" THEN TRUE
    ELSE IF dep_kind = "dev" THEN include_build
    ELSE IF dep_kind = "build" THEN include_dev
    ELSE FALSE

wanted_dep_kind(dep_kind, include_dev, include_build) ==
    IF dep_kind = None \/ dep_kind = "normal" THEN TRUE
    ELSE IF dep_kind = "dev" THEN include_dev
    ELSE IF dep_kind = "build" THEN include_build
    ELSE FALSE

\* dep.get("dep_kinds", [])
DepKinds(dep) == IF dep.has_dep_kinds THEN dep.dep_kinds ELSE <<>>

\* any(wanted_dep_kind(k.get("kind"), ...) for k in dep_kinds)
ok_kind(dep, include_dev, include_build) ==
    \E i \in 1..Len(DepKinds(dep)) :
        wanted_dep_kind(DepKinds(dep)[i].kind, include_dev, include_build)

\* meta.get("workspace_default_members") or list(workspace_members); a missing,
\* null or empty list is the empty sequence (all are falsy)
default_members(m) ==
    IF m.workspace_default_members # <<>>
    THEN Range(m.workspace_default_members)
    ELSE m.workspace_members

\* direct_ids with the walk continued one hop further
direct_ids_closure(m, ns, include_dev, include_build, include_optional) ==
    LET hop(S) == UNION {{ns[r].deps[i].pkg :
                            i \in {j \in 1..Len(ns[r].deps) :
                                     ok_kind(ns[r].deps[j], include_dev, include_build)}} :
                         r \in {x \in S : x \in DOMAIN ns}}
    IN hop(default_members(m)) \cup hop(hop(default_members(m)))

\* direct_ids with the edges kept only under --include-optional
direct_ids_optional(m, ns, include_dev, include_build, include_optional) ==
    UNION {{ns[r].deps[i].pkg :
              i \in {j \in 1..Len(ns[r].deps) :
                       /\ ok_kind(ns[r].deps[j], include_dev, include_build)
                       /\ include_optional}} :
           r \in {x \in default_members(m) : x \in DOMAIN ns}}

\* the set direct_ids after the loop over the roots
direct_ids(m, ns, include_dev, include_build, include_optional) ==
    UNION {{ns[r].deps[i].pkg :
              i \in {j \in 1..Len(ns[r].deps) :
                       ok_kind(ns[r].deps[j], include_dev, include_build)}} :
           r \in {x \in default_members(m) : x \in DOMAIN ns}}

\* the sort key (p.name.lower(), p.version)
KeyLess(p, q) ==
    \/ StrLess(Lower(p.name), Lower(q.name))
    \/ Lower(p.name) = Lower(q.name) /\ StrLess(p.version, q.version)

\* list.sort(key=...) is stable: x goes after every element whose key is not greater
RECURSIVE InsertByKey(_, _)
InsertByKey(sorted, x) ==
    IF sorted = <<>> THEN <<x>>
    ELSE IF KeyLess(x, Head(sorted)) THEN <<x>> \o sorted
    ELSE <<Head(sorted)>> \o InsertByKey(Tail(sorted), x)

RECURSIVE SortByKey(_)
SortByKey(s) ==
    IF s = <<>> THEN <<>>
    ELSE InsertByKey(SortByKey(SubSeq(s, 1, Len(s) - 1)), s[Len(s)])

first_party(pkg, repo_root, links) ==
    pkg.source = None /\ is_within(pkg.manifest_path, repo_root, links)

\* direct_deps_of_roots with direct_ids kept as a list, one entry per wanted edge
direct_deps_of_roots_list(m, ps, ns, repo_root, include_dev, include_build, include_optional, order, links) ==
    LET ids == direct_ids(m, ns, include_dev, include_build, include_optional)
        edges(id) == UNION {{<<r, i>> : i \in {j \in 1..Len(ns[r].deps) :
                                              /\ ns[r].deps[j].pkg = id
                                              /\ ok_kind(ns[r].deps[j], include_dev,
                                                         include_build)}} :
                            r \in {x \in default_members(m) : x \in DOMAIN ns}}
        once == SelectSeq(order, LAMBDA id : id \in ids)
        visited == once \o SelectSeq(once, LAMBDA id : Cardinality(edges(id)) > 1)
        kept == SelectSeq(visited,
                    LAMBDA id : id \in DOMAIN ps /\ ~first_party(ps[id], repo_root, links))
    IN SortByKey([i \in 1..Len(kept) |-> ps[kept[i]]])

\* order: the iteration order of the set direct_ids (for dep_id in direct_ids)
direct_deps_of_roots(m, ps, ns, repo_root, include_dev, include_build, include_optional, order, links) ==
    LET ids == direct_ids(m, ns, include_dev, include_build, include_optional)
        visited == SelectSeq(order, LAMBDA id : id \in ids)
        kept == SelectSeq(visited,
                    LAMBDA id : id \in DOMAIN ps /\ ~first_party(ps[id], repo_root, links))
    IN SortByKey([i \in 1..Len(kept) |-> ps[kept[i]]])

-----------------------------------------------------------------------------
(* file system *)

\* the code points of the file names that occur in the modelled directories
Codes(name) ==
    CASE name = "LICENSE"      -> <<76, 73, 67, 69, 78, 83, 69>>
      [] name = "LICENSE.md"   -> <<76, 73, 67, 69, 78, 83, 69, 46, 109, 100>>
      [] name = "LICENSE-MIT"  -> <<76, 73, 67, 69, 78, 83, 69, 45, 77, 73, 84>>
      [] name = "license"      -> <<108, 105, 99, 101, 110, 115, 101>>
      [] name = "COPYING"      -> <<67, 79, 80, 89, 73, 78, 71>>
      [] name = "NOTICE.txt"   -> <<78, 79, 84, 73, 67, 69, 46, 116, 120, 116>>
      [] name = "NOTICE"       -> <<78, 79, 84, 73, 67, 69>>
      [] name = "README.md"    -> <<82, 69, 65, 68, 77, 69, 46, 109, 100>>
      [] name = "legal"        -> <<108, 101, 103, 97, 108>>
      [] name = "Cargo.toml"   -> <<67, 97, 114, 103, 111, 46, 116, 111, 109, 108>>
      [] OTHER                 -> <<63>>

\* LICENSE_CANDIDATE_PATTERNS: [stem, wild]: "STEM" or "STEM.*"
LICENSE_CANDIDATE_PATTERNS ==
    LET stems == << <<76, 73, 67, 69, 78, 83, 69>>,          \* LICENSE
                    <<76, 73, 67, 69, 78, 67, 69>>,          \* LICENCE
                    <<67, 79, 80, 89, 73, 78, 71>>,          \* COPYING
                    <<78, 79, 84, 73, 67, 69>>,              \* NOTICE
                    <<67, 79, 80, 89, 82, 73, 71, 72, 84>>,  \* COPYRIGHT
                    <<85, 78, 76, 73, 67, 69, 78, 83, 69>> >> \* UNLICENSE
    IN [i \in 1..(2 * Len(stems)) |->
            [stem |-> stems[(i + 1) \div 2], wild |-> (i % 2 = 0)]]

\* fnmatch of one file name against one pattern (case-sensitive)
Matches(pat, name) ==
    IF pat.wild THEN StartsWith(name, Append(pat.stem, 46)) ELSE name = pat.stem

\* the entry a path denotes once symbolic links are followed, if any
EntryAt(p, fs, links) == {e \in Range(fs) : e.kind # "link" /\ e.path = Resolve(p, links)}

Exists(p, fs, links) == EntryAt(p, fs, links) # {}

IsFile(p, fs, links) == \E e \in EntryAt(p, fs, links) : e.kind = "file"

ReadBytes(p, fs, links) == (CHOOSE e \in EntryAt(p, fs, links) : TRUE).data

\* pkg_dir.glob(pat): the entries of the directory, in listing order, that match
Glob(pkg_dir, pat, fs, links) ==
    LET hits == SelectSeq(fs, LAMBDA e :
                    /\ Parent(e.path) = Resolve(pkg_dir, links)
                    /\ Matches(pat, Codes(Name(e.path))))
    IN [i \in 1..Len(hits) |-> Append(pkg_dir, Name(hits[i].path))]

-----------------------------------------------------------------------------
(* bytes and text, run-length encoded *)

RECURSIVE ByteLen(_)
ByteLen(d) == IF d = <<>> THEN 0 ELSE d[1].n + ByteLen(Tail(d))

\* append n copies of b, merging with the last run
AppendRun(d, b, n) ==
    IF n = 0 THEN d
    ELSE IF d # <<>> /\ d[Len(d)].b = b
         THEN [d EXCEPT ![Len(d)].n = @ + n]
         ELSE Append(d, [b |-> b, n |-> n])

RECURSIVE Concat(_, _)
Concat(d, e) == IF e = <<>> THEN d ELSE Concat(AppendRun(d, e[1].b, e[1].n), Tail(e))

\* data[:k]
RECURSIVE TakeBytes(_, _)
TakeBytes(d, k) ==
    IF d = <<>> \/ k <= 0 THEN <<>>
    ELSE IF d[1].n >= k THEN <<[b |-> d[1].b, n |-> k]>>
    ELSE <<d[1]>> \o TakeBytes(Tail(d), k - d[1].n)

\* b"\n\n[TRUNCATED]\n"
TRUNCATED_MARKER ==
    LET bytes == <<91, 84, 82, 85, 78, 67, 65, 84, 69, 68, 93, 10>>
    IN <<[b |-> 10, n |-> 2]>> \o [i \in 1..Len(bytes) |-> [b |-> bytes[i], n |-> 1]]

REPLACEMENT_CHARACTER == 65533

IsAscii(b) == b < 128
IsContinuation(b) == b >= 128 /\ b <= 191
IsLead2(b) == b >= 194 /\ b <= 223

\* bytes.decode("utf-8", errors="replace") for bytes below 0xE0 and above 0xF4:
\* ASCII, continuation bytes, two-byte leads and bytes that are never valid.
\* lead is the pending two-byte lead, 0 if none.
RECURSIVE DecodeFrom(_, _, _)
DecodeFrom(out, lead, d) ==
    IF d = <<>>
    THEN (IF lead = 0 THEN out ELSE AppendRun(out, REPLACEMENT_CHARACTER, 1))
    ELSE LET b == d[1].b
             n == d[1].n
         IN IF lead # 0
            THEN IF IsContinuation(b)
                 THEN DecodeFrom(AppendRun(AppendRun(out, (lead - 192) * 64 + (b - 128), 1),
                                           REPLACEMENT_CHARACTER, n - 1),
                                 0, Tail(d))
                 ELSE DecodeFrom(AppendRun(out, REPLACEMENT_CHARACTER, 1), 0, d)
            ELSE IF IsAscii(b) THEN DecodeFrom(AppendRun(out, b, n), 0, Tail(d))
            ELSE IF IsLead2(b)
                 THEN DecodeFrom(AppendRun(out, REPLACEMENT_CHARACTER, n - 1), b, Tail(d))
            ELSE DecodeFrom(AppendRun(out, REPLACEMENT_CHARACTER, n), 0, Tail(d))

decode_utf8_replace(d) == DecodeFrom(<<>>, 0, d)

DEFAULT_MAX_BYTES == 512000

\* safe_read_text truncating from max_bytes on
safe_read_text_ge(data, max_bytes) ==
    decode_utf8_replace(IF ByteLen(data) >= max_bytes
                        THEN Concat(TakeBytes(data, max_bytes), TRUNCATED_MARKER)
                        ELSE data)

safe_read_text(data, max_bytes) ==
    decode_utf8_replace(IF ByteLen(data) > max_bytes
                        THEN Concat(TakeBytes(data, max_bytes), TRUNCATED_MARKER)
                        ELSE data)

\* str.rstrip(): drop the trailing white space
IsSpace(c) == c \in {9, 10, 11, 12, 13, 28, 29, 30, 31, 32, 133, 160}

RECURSIVE rstrip(_)
rstrip(t) ==
    IF t # <<>> /\ IsSpace(t[Len(t)].b) THEN rstrip(SubSeq(t, 1, Len(t) - 1)) ELSE t

-----------------------------------------------------------------------------
(* find_license_files, render_markdown *)

\* found: for each pattern in order, the matching regular files
RECURSIVE FoundFrom(_, _, _, _)
FoundFrom(i, pkg_dir, fs, links) ==
    IF i > Len(LICENSE_CANDIDATE_PATTERNS) THEN <<>>
    ELSE SelectSeq(Glob(pkg_dir, LICENSE_CANDIDATE_PATTERNS[i], fs, links),
                   LAMBDA p : IsFile(p, fs, links))
         \o FoundFrom(i + 1, pkg_dir, fs, links)

\* uniq[p.resolve()] = p: one value per resolved path, at the position of the
\* first occurrence of the key, holding the last path with that key
UniqValues(found, links) ==
    LET key(i) == Resolve(found[i], links)
        firsts == SelectSeq([i \in 1..Len(found) |-> i],
                            LAMBDA i : \A j \in 1..(i - 1) : key(j) # key(i))
        last(i) == CHOOSE j \in 1..Len(found) :
                       key(j) = key(i) /\ \A k \in (j + 1)..Len(found) : key(k) # key(i)
    IN [x \in 1..Len(firsts) |-> found[last(firsts[x])]]

\* sorted(..., key=lambda x: x.name.lower()), stable
RECURSIVE InsertByName(_, _)
InsertByName(sorted, p) ==
    IF sorted = <<>> THEN <<p>>
    ELSE IF StrLess(Lower(Codes(Name(p))), Lower(Codes(Name(Head(sorted)))))
         THEN <<p>> \o sorted
    ELSE <<Head(sorted)>> \o InsertByName(Tail(sorted), p)

RECURSIVE SortByName(_)
SortByName(s) ==
    IF s = <<>> THEN <<>>
    ELSE InsertByName(SortByName(SubSeq(s, 1, Len(s) - 1)), s[Len(s)])

find_license_files(pkg_dir, fs, links) ==
    SortByName(UniqValues(FoundFrom(1, pkg_dir, fs, links), links))

\* lines 263-270: the declared license-file, if it is an existing regular file
declared_license_files(p, fs, links) ==
    IF p.license_file = <<>> THEN <<>>
    ELSE LET pkg_dir == Parent(p.manifest_path)
             lf == IF IsAbsolute(p.license_file) THEN p.license_file
                   ELSE Resolve(pkg_dir \o p.license_file, links)
         IN IF Exists(lf, fs, links) /\ IsFile(lf, fs, links) THEN <<lf>> ELSE <<>>

\* license_files_of with the scan done unconditionally
license_files_scan_always(p, fs, links) ==
    declared_license_files(p, fs, links)
        \o find_license_files(Parent(p.manifest_path), fs, links)

\* lines 263-274: the license files rendered for p
license_files_of(p, fs, links) ==
    IF declared_license_files(p, fs, links) # <<>>
    THEN declared_license_files(p, fs, links)
    ELSE find_license_files(Parent(p.manifest_path), fs, links)

\* lines 284-293: safe_read_text(lf) for each license file of p
license_reads(p, fs, links) ==
    LET lfs == license_files_of(p, fs, links)
    IN [i \in 1..Len(lfs) |->
            [pkg_id |-> p.pkg_id,
             path   |-> lfs[i],
             data   |-> ReadBytes(lfs[i], fs, links),
             text   |-> safe_read_text(ReadBytes(lfs[i], fs, links), DEFAULT_MAX_BYTES)]]

RECURSIVE render_reads(_, _, _)
render_reads(ds, fs, links) ==
    IF ds = <<>> THEN <<>>
    ELSE license_reads(Head(ds), fs, links) \o render_reads(Tail(ds), fs, links)

\* one "## name version" section of the body
render_section(p, fs, links) ==
    LET pkg_dir == Parent(p.manifest_path)
        lfs == license_files_of(p, fs, links)
        rds == license_reads(p, fs, links)
    IN [title        |-> p.name \o <<32>> \o p.version,
        pkg_id       |-> p.pkg_id,
        license_expr |-> p.license_expr,
        repository   |-> p.repository,
        source       |-> p.source,
        placeholder  |-> (lfs = <<>>),
        files        |-> [i \in 1..Len(lfs) |->
                            [heading |-> IF IsRelativeTo(lfs[i], pkg_dir)
                                         THEN RelativeTo(lfs[i], pkg_dir) ELSE lfs[i],
                             text    |-> rstrip(rds[i].text)]]]

\* the document: header fields, table of contents, body (the time stamp and the
\* anchors of the table of contents are left out)
render_markdown(ds, repo_root, out_name, include_dev, include_build, include_optional, fs, links) ==
    [repo             |-> repo_root,
     kinds            |-> <<"normal">> \o (IF include_dev THEN <<"dev">> ELSE <<>>)
                                        \o (IF include_build THEN <<"build">> ELSE <<>>),
     include_optional |-> include_optional,
     toc              |-> [i \in 1..Len(ds) |-> ds[i].name \o <<32>> \o ds[i].version],
     body             |-> [i \in 1..Len(ds) |-> render_section(ds[i], fs, links)]]

-----------------------------------------------------------------------------
(* main *)

EMPTY_META ==
    [packages |-> <<>>, resolve |-> [shape |-> "absent", nodes |-> <<>>],
     workspace_members |-> {}, workspace_default_members |-> <<>>]

\* SystemExit(message): the message goes to the error stream, the status is 1
SystemExit(message) ==
    /\ stderr' = message
    /\ exit_status' = 1
    /\ pc' = "exited"

\* RunCargoMetadata without the check of the return code
RunCargoMetadata_unchecked ==
    /\ pc = "main"
    /\ repo' = Resolve(args.repo, symlinks)
    /\ cargo_calls' = cargo_calls + 1
    /\ meta' = cargo.stdout
    /\ stages' = Append(stages, "run_cargo_metadata")
    /\ pc' = "collect_packages"
    /\ UNCHANGED <<stderr, exit_status, reads, args, cargo, symlinks, files, pkgs, nodes,
                   iter_order, deps, md, out_file, stdout>>

\* lines 301-314: parse the arguments, resolve the repository, spawn the resolver
RunCargoMetadata ==
    /\ pc = "main"
    /\ repo' = Resolve(args.repo, symlinks)
    /\ cargo_calls' = cargo_calls + 1
    /\ IF cargo.returncode # 0
       THEN /\ SystemExit("ERROR: cargo metadata failed (exit nonzero).")
            /\ UNCHANGED <<meta, stages>>
       ELSE /\ meta' = cargo.stdout
            /\ stages' = Append(stages, "run_cargo_metadata")
            /\ pc' = "collect_packages"
            /\ UNCHANGED <<stderr, exit_status>>
    /\ UNCHANGED <<reads, args, cargo, symlinks, files, pkgs, nodes, iter_order, deps, md,
                   out_file, stdout>>

\* line 315
CollectPackages ==
    /\ pc = "collect_packages"
    /\ pkgs' = collect_packages(meta)
    /\ stages' = Append(stages, "collect_packages")
    /\ pc' = "collect_resolve_nodes"
    /\ UNCHANGED <<reads, args, cargo, symlinks, files, repo, meta, nodes, iter_order, deps, md,
                   out_file, stdout, stderr, exit_status, cargo_calls>>

\* line 316
CollectResolveNodes ==
    /\ pc = "collect_resolve_nodes"
    /\ IF ResolveMissing(meta)
       THEN /\ SystemExit("ERROR: cargo metadata did not include a resolve graph.")
            /\ UNCHANGED <<nodes, stages>>
       ELSE /\ nodes' = collect_resolve_nodes(meta)
            /\ stages' = Append(stages, "collect_resolve_nodes")
            /\ pc' = "direct_deps_of_roots"
            /\ UNCHANGED <<stderr, exit_status>>
    /\ UNCHANGED <<reads, args, cargo, symlinks, files, repo, meta, pkgs, iter_order, deps, md,
                   out_file, stdout, cargo_calls>>

\* lines 318-326; the iteration order of the set direct_ids is any order
DirectDepsOfRoots ==
    /\ pc = "direct_deps_of_roots"
    /\ \E order \in Permutations_of(direct_ids(meta, nodes, args.include_dev,
                                                args.include_build, args.include_optional)) :
          /\ iter_order' = order
          /\ deps' = direct_deps_of_roots(meta, pkgs, nodes, repo, args.include_dev,
                                          args.include_build, args.include_optional,
                                          order, symlinks)
    /\ stages' = Append(stages, "direct_deps_of_roots")
    /\ pc' = "render_markdown"
    /\ UNCHANGED <<reads, args, cargo, symlinks, files, repo, meta, pkgs, nodes, md, out_file,
                   stdout, stderr, exit_status, cargo_calls>>

\* lines 328-335
RenderMarkdown ==
    /\ pc = "render_markdown"
    /\ md' = render_markdown(deps, repo, args.output, args.include_dev, args.include_build,
                             args.include_optional, files, symlinks)
    /\ reads' = render_reads(deps, files, symlinks)
    /\ stages' = Append(stages, "render_markdown")
    /\ pc' = "write_text"
    /\ UNCHANGED <<args, cargo, symlinks, files, repo, meta, pkgs, nodes, iter_order, deps,
                   out_file, stdout, stderr, exit_status, cargo_calls>>

\* lines 337-339: write the file next to the repository, print the summary, return
WriteOutput ==
    /\ pc = "write_text"
    /\ out_file' = Append(out_file, [path |-> Append(Parent(repo), args.output), text |-> md])
    /\ stdout' = Append(stdout, [wrote |-> Append(Parent(repo), args.output),
                                 count |-> Len(deps)])
    /\ exit_status' = 0
    /\ pc' = "exited"
    /\ UNCHANGED <<reads, args, cargo, symlinks, files, repo, meta, pkgs, nodes, iter_order, deps,
                   md, stderr, cargo_calls, stages>>

Next ==
    \/ RunCargoMetadata
    \/ CollectPackages
    \/ CollectResolveNodes
    \/ DirectDepsOfRoots
    \/ RenderMarkdown
    \/ WriteOutput

-----------------------------------------------------------------------------
(* the environments main() is run in: command line, resolver output, file system *)

MaxKinds == 2      \* longest dep_kinds list of the edge whose kinds vary freely
MaxRuns == 2       \* most runs of equal bytes in the licence file whose content varies

REPO == <<"/", "repo">>

\* names and versions, as code points
N_foo == <<102, 111, 111>>
N_Foo == <<70, 111, 111>>
N_Bar == <<66, 97, 114>>
N_fop == <<102, 111, 112>>
V_1_0 == <<49, 46, 48>>
V_1_10 == <<49, 46, 49, 48>>
V_0_9 == <<48, 46, 57>>

REGISTRY == "registry+https://github.com/rust-lang/crates.io-index"

\* manifest paths: in the registry; in the repository; lexically in the repository but
\* resolving outside it (.. or the symbolic link /repo/vendor); lexically outside but
\* resolving inside
ManifestPaths(id) ==
    { <<"/", "cargo", "registry", id, "Cargo.toml">>,
      <<"/", "repo", "crates", id, "Cargo.toml">>,
      <<"/", "repo", "..", "ext", id, "Cargo.toml">>,
      <<"/", "repo", "vendor", id, "Cargo.toml">>,
      <<"/", "ext", "..", "repo", id, "Cargo.toml">> }

VENDOR_LINK == (<<"/", "repo", "vendor">> :> <<"/", "ext", "vendor">>)

RawPkg(id, name, version, manifest_path, license_file, source) ==
    [id |-> id, name |-> name, version |-> version, manifest_path |-> manifest_path,
     license |-> IF source = None THEN None ELSE "MIT",
     license_file |-> license_file, repository |-> None, source |-> source]

RegistryPkg(id, name, version) ==
    RawPkg(id, name, version, <<"/", "cargo", "registry", id, "Cargo.toml">>, <<>>, REGISTRY)

MemberPkg(id, name) ==
    RawPkg(id, name, V_1_0, <<"/", "repo", "crates", id, "Cargo.toml">>, <<>>, None)

Kinds == {None, "normal", "dev", "build", "proc-macro"}

KindLists(max) ==
    UNION {{[i \in 1..n |-> [kind |-> f[i]]] : f \in [1..n -> Kinds]} : n \in 0..max}

\* one edge to pkg, or none
Dep(pkg, dep_kinds) == [pkg |-> pkg, has_dep_kinds |-> TRUE, dep_kinds |-> dep_kinds]

DepNoKinds(pkg) == [pkg |-> pkg, has_dep_kinds |-> FALSE, dep_kinds |-> <<>>]

K(kind) == <<[kind |-> kind]>>

FreeEdge(pkg) ==
    {<<>>, <<DepNoKinds(pkg)>>} \cup {<<Dep(pkg, ks)>> : ks \in KindLists(MaxKinds)}

SomeEdge(pkg, kinds) == {<<>>} \cup {<<Dep(pkg, K(k))>> : k \in kinds}

Flags == [include_dev : BOOLEAN, include_build : BOOLEAN, include_optional : BOOLEAN]

Args(flags) ==
    [repo |-> REPO, output |-> "THIRD_PARTY.md", include_dev |-> flags.include_dev,
     include_build |-> flags.include_build, include_optional |-> flags.include_optional]

TEXT_MIT == <<[b |-> 77, n |-> 1], [b |-> 73, n |-> 1], [b |-> 84, n |-> 1], [b |-> 10, n |-> 1]>>
TEXT_NOTICE == <<[b |-> 78, n |-> 3], [b |-> 32, n |-> 2]>>
TEXT_APACHE == <<[b |-> 65, n |-> 2]>>

File(path, data) == [path |-> path, kind |-> "file", data |-> data]
Dir(path) == [path |-> path, kind |-> "dir", data |-> <<>>]
Link(path) == [path |-> path, kind |-> "link", data |-> <<>>]

PkgDir(id) == <<"/", "cargo", "registry", id>>

BASE_FILES ==
    << File(PkgDir("a") \o <<"LICENSE">>, TEXT_MIT),
       File(PkgDir("b") \o <<"NOTICE">>, TEXT_NOTICE) >>

Graph(packages, nodeseq, members, defaults) ==
    [packages |-> packages,
     resolve |-> [shape |-> "object", nodes |-> nodeseq],
     workspace_members |-> members,
     workspace_default_members |-> defaults]

Node(id, ds) == [id |-> id, deps |-> ds]

Env(flags, returncode, document, links, fs) ==
    [args |-> Args(flags),
     cargo |-> [returncode |-> returncode, stdout |-> document],
     symlinks |-> links,
     files |-> fs]

\* (1) the edges, their kinds, the default members and the flags vary
GraphEnvs ==
    { Env(flags, 0,
          Graph(<< MemberPkg("r1", N_foo), MemberPkg("r2", N_Bar),
                   RegistryPkg("a", N_Foo, V_1_0), RegistryPkg("b", N_fop, V_0_9),
                   RegistryPkg("c", N_Bar, V_1_10) >>,
                << Node("r1", r1a),
                   Node("r2", r2a \o r2b),
                   Node("a", <<Dep("c", K("normal"))>>),
                   Node("b", <<>>), Node("c", <<>>) >>,
                {"r1", "r2"}, defaults),
          VENDOR_LINK, BASE_FILES) :
        flags \in Flags,
        r1a \in FreeEdge("a"),
        r2a \in SomeEdge("a", {"normal", "dev"}),
        r2b \in SomeEdge("b", {"build"}),
        defaults \in {<<>>, <<"r1">>, <<"r2", "w">>} }

\* (2) the catalogue varies: name, version, source and manifest path of b;
\* x is an identifier without a package record
CatalogEnvs ==
    { Env([include_dev |-> FALSE, include_build |-> FALSE, include_optional |-> FALSE], 0,
          Graph(<< MemberPkg("r1", N_foo), MemberPkg("r2", N_Bar),
                   RegistryPkg("a", N_foo, V_1_0),
                   RawPkg("b", bname, bversion, bpath, <<>>, bsource) >>,
                << Node("r1", <<Dep("a", K("normal")), Dep("b", K("normal")),
                                Dep("r2", K("normal"))>>),
                   Node("r2", <<Dep("b", K("normal")), Dep("x", K(None))>>),
                   Node("a", <<>>), Node("b", <<>>) >>,
                {"r1", "r2"}, <<>>),
          VENDOR_LINK, BASE_FILES) :
        bname \in {N_foo, N_Foo, N_fop, N_Bar},
        bversion \in {V_1_0, V_1_10, V_0_9},
        bpath \in ManifestPaths("b"),
        bsource \in {None, REGISTRY} }

\* (3) the resolver fails, or its document has no usable resolve graph
FailureEnvs ==
    { Env(flags, returncode,
          [Graph(<< MemberPkg("r1", N_foo), RegistryPkg("a", N_Foo, V_1_0) >>,
                 << Node("r1", <<Dep("a", K("normal"))>>), Node("a", <<>>) >>,
                 {"r1"}, <<>>)
             EXCEPT !.resolve = IF shape = "object" THEN @
                                ELSE [shape |-> shape, nodes |-> <<>>]],
          VENDOR_LINK, BASE_FILES) :
        flags \in Flags,
        returncode \in {0, 1, 101},
        shape \in {"object", "absent", "null", "empty"} }

\* every subsequence of s, the order kept
RECURSIVE SubSeqs(_)
SubSeqs(s) ==
    IF s = <<>> THEN {<<>>}
    ELSE LET rest == SubSeqs(Tail(s))
         IN rest \cup {<<Head(s)>> \o t : t \in rest}

\* what the directory of package a may hold; LICENSE.md is a link to LICENSE
A_ENTRIES ==
    << File(PkgDir("a") \o <<"NOTICE.txt">>, TEXT_NOTICE),
       Link(PkgDir("a") \o <<"LICENSE.md">>),
       File(PkgDir("a") \o <<"LICENSE">>, TEXT_MIT),
       File(PkgDir("a") \o <<"LICENSE-MIT">>, TEXT_MIT),
       File(PkgDir("a") \o <<"license">>, TEXT_MIT),
       Dir(PkgDir("a") \o <<"COPYING">>),
       Dir(PkgDir("a") \o <<"legal">>) >>

A_LINKS == (PkgDir("a") \o <<"LICENSE.md">>) :> (PkgDir("a") \o <<"LICENSE">>)

SHARED_FILES == << File(<<"/", "opt", "licenses", "APACHE">>, TEXT_APACHE) >>

\* license_file of package a: none, relative (a file, a file that matches no
\* pattern, a directory, missing), absolute (a file, missing)
LicenseFileOptions ==
    { <<>>, <<"NOTICE.txt">>, <<"LICENSE-MIT">>, <<"legal">>, <<"README.md">>,
      <<"/", "opt", "licenses", "APACHE">>, <<"/", "opt", "licenses", "MISSING">> }

OneDepGraph(license_file) ==
    Graph(<< MemberPkg("r1", N_foo),
             RawPkg("a", N_Foo, V_1_0, PkgDir("a") \o <<"Cargo.toml">>, license_file,
                    REGISTRY) >>,
          << Node("r1", <<Dep("a", K("normal"))>>), Node("a", <<>>) >>,
          {"r1"}, <<"r1">>)

\* (4) the declared license-file and the content of the package directory vary
LicenseEnvs ==
    { Env([include_dev |-> FALSE, include_build |-> FALSE, include_optional |-> FALSE], 0,
          OneDepGraph(license_file), A_LINKS, listing \o SHARED_FILES) :
        license_file \in LicenseFileOptions,
        listing \in SubSeqs(A_ENTRIES) }

\* the bytes and the run lengths the licence file is made of
BYTE_VALUES == {97, 255, 195, 169}

RunLengths == {1, 100, DEFAULT_MAX_BYTES - 1, DEFAULT_MAX_BYTES, 600000 - DEFAULT_MAX_BYTES}

Datas(max) ==
    UNION {{d \in [1..k -> [b : BYTE_VALUES, n : RunLengths]] :
                \A i \in 1..(k - 1) : d[i].b # d[i + 1].b} : k \in 0..max}

\* (5) the content of the one licence file varies
ContentEnvs ==
    { Env([include_dev |-> FALSE, include_build |-> FALSE, include_optional |-> FALSE], 0,
          OneDepGraph(<<>>), A_LINKS,
          << File(PkgDir("a") \o <<"LICENSE">>, data) >>) :
        data \in Datas(MaxRuns) }

Envs == GraphEnvs \cup CatalogEnvs \cup FailureEnvs \cup LicenseEnvs \cup ContentEnvs

Init ==
    /\ \E env \in Envs :
          /\ args = env.args
          /\ cargo = env.cargo
          /\ symlinks = env.symlinks
          /\ files = env.files
    /\ pc = "main"
    /\ repo = <<>>
    /\ meta = EMPTY_META
    /\ pkgs = <<>>
    /\ nodes = <<>>
    /\ iter_order = <<>>
    /\ deps = <<>>
    /\ md = None
    /\ reads = <<>>
    /\ out_file = <<>>
    /\ stdout = <<>>
    /\ stderr = None
    /\ exit_status = None
    /\ cargo_calls = 0
    /\ stages = <<>>

Spec == Init /\ [][Next]_vars

-----------------------------------------------------------------------------
(* Properties.  They are stated on the input of the run (the command line, the   *)
(* resolver's document, the file system) and on what the run produced.           *)

Selected == "direct_deps_of_roots" \in Range(stages)
Rendered == "render_markdown" \in Range(stages)
Finished == pc = "exited" /\ exit_status = 0

Doc == cargo.stdout
DepIds == {deps[i].pkg_id : i \in 1..Len(deps)}

DefaultRoots ==
    IF Doc.workspace_default_members # <<>>
    THEN Range(Doc.workspace_default_members)
    ELSE Doc.workspace_members

\* the edges that leave a default root: [from, dep]
RootEdges ==
    UNION {{[from |-> n.id, dep |-> n.deps[i]] : i \in 1..Len(n.deps)} :
           n \in {x \in Range(Doc.resolve.nodes) : x.id \in DefaultRoots}}

KindsOf(dep) ==
    IF dep.has_dep_kinds THEN {dep.dep_kinds[i].kind : i \in 1..Len(dep.dep_kinds)} ELSE {}

WantedKind(k) ==
    \/ k \in {None, "normal"}
    \/ k = "dev" /\ args.include_dev
    \/ k = "build" /\ args.include_build

WantedEdge(e) == \E k \in KindsOf(e.dep) : WantedKind(k)

WantedTargets == {e.dep.pkg : e \in {x \in RootEdges : WantedEdge(x)}}

HasRecord(id) == \E i \in 1..Len(Doc.packages) : Doc.packages[i].id = id

RecordOf(id) == CHOOSE r \in Range(Doc.packages) : r.id = id

InsideRepo(path) ==
    LET rp == Resolve(path, symlinks)
        rr == Resolve(args.repo, symlinks)
    IN Len(rp) >= Len(rr) /\ \A i \in 1..Len(rr) : rp[i] = rr[i]

FirstParty(id) ==
    HasRecord(id) /\ RecordOf(id).source = None /\ InsideRepo(RecordOf(id).manifest_path)

\* C1: only targets of an edge that leaves a default root (one hop) are returned and
\* get a section; a package reached by two or more hops only is never returned.
C1_DirectOnly ==
    Selected =>
        /\ \A id \in DepIds : \E e \in RootEdges : e.dep.pkg = id
        /\ Rendered =>
              /\ Len(md.body) = Len(deps)
              /\ \A i \in 1..Len(md.body) : \E e \in RootEdges : e.dep.pkg = md.body[i].pkg_id

\* a is returned, a depends on the third-party package c, no root does: c has no section
C1_Witness ==
    /\ Finished
    /\ "a" \in DepIds
    /\ \E n \in Range(Doc.resolve.nodes) : n.id = "a" /\ \E i \in 1..Len(n.deps) : n.deps[i].pkg = "c"
    /\ HasRecord("c") /\ ~FirstParty("c")
    /\ \A e \in RootEdges : e.dep.pkg # "c"
    /\ \A i \in 1..Len(md.body) : md.body[i].pkg_id # "c"

\* C2: a package without source whose manifest resolves inside the repository is
\* never returned; the rule drops no package that has a source or lies outside.
C2_FirstPartyExcluded ==
    Selected =>
        \A id \in {Doc.packages[i].id : i \in 1..Len(Doc.packages)} :
            /\ FirstParty(id) => id \notin DepIds
            /\ (~FirstParty(id) /\ id \in WantedTargets) => id \in DepIds

\* b is first-party, two default roots have a wanted edge to it, and it is left out
C2_Witness ==
    /\ Finished
    /\ FirstParty("b")
    /\ Cardinality({e.from : e \in {x \in RootEdges : x.dep.pkg = "b" /\ WantedEdge(x)}}) >= 2
    /\ "b" \notin DepIds
    /\ DepIds # {}

\* C3: an edge of a default root is selected iff one of its kinds is wanted: normal
\* and null always, dev only with include_dev, build only with include_build.
C3_KindFiltering ==
    Selected =>
        /\ Range(iter_order) = WantedTargets
        /\ DepIds = {id \in WantedTargets : HasRecord(id) /\ ~FirstParty(id)}

\* without include_dev, an edge with the kinds dev and build is selected under
\* include_build, and a package that only a dev edge leads to is left out
C3_Witness ==
    /\ Selected
    /\ ~args.include_dev /\ args.include_build
    /\ \E e \in RootEdges : KindsOf(e.dep) = {"dev", "build"} /\ e.dep.pkg \in DepIds
    /\ \E e \in RootEdges : KindsOf(e.dep) = {"build"} /\ e.dep.pkg \in DepIds
    /\ Doc.workspace_default_members = <<>>

\* C4 as stated: an edge of a default root whose kind is normal, or that reports no
\* kind (a null kind entry, an empty or a missing dep_kinds list), is always selected.
C4_NoKindIncluded ==
    Selected =>
        \A e \in RootEdges :
            ( \/ "normal" \in KindsOf(e.dep)
              \/ None \in KindsOf(e.dep)
              \/ ~e.dep.has_dep_kinds
              \/ e.dep.dep_kinds = <<>> ) => e.dep.pkg \in Range(iter_order)

\* C5: no identifier occurs twice in the returned list; a package wanted by several
\* roots or through several kinds occurs exactly once.
C5_NoDuplicates ==
    Selected =>
        /\ \A i, j \in 1..Len(deps) : deps[i].pkg_id = deps[j].pkg_id => i = j
        /\ \A id \in {x \in WantedTargets : HasRecord(x) /\ ~FirstParty(x)} :
              Cardinality({i \in 1..Len(deps) : deps[i].pkg_id = id}) = 1

\* a is a wanted dependency of both default roots and is listed once
C5_Witness ==
    /\ Finished
    /\ Cardinality({e.from : e \in {x \in RootEdges : x.dep.pkg = "a" /\ WantedEdge(x)}}) = 2
    /\ Cardinality({i \in 1..Len(deps) : deps[i].pkg_id = "a"}) = 1

Sorted(ds) == \A i, j \in 1..Len(ds) : i < j => ~KeyLess(ds[j], ds[i])

\* C6 as stated: the list is sorted by (lowercased name, version), and for a given
\* graph and configuration it is the same list in every run, whatever order the
\* set of identifiers is iterated in.
C6_SortedAndStable ==
    Selected =>
        /\ Sorted(deps)
        /\ \A order \in Permutations_of(Range(iter_order)) :
              direct_deps_of_roots(meta, pkgs, nodes, repo, args.include_dev,
                                   args.include_build, args.include_optional,
                                   order, symlinks) = deps

\* C7: the list is the same with include_optional negated, and the document differs
\* in the "Included optional deps" header line only.
C7_OptionalNoOp ==
    Selected =>
        /\ deps = direct_deps_of_roots(meta, pkgs, nodes, repo, args.include_dev,
                                       args.include_build, ~args.include_optional,
                                       iter_order, symlinks)
        /\ Rendered =>
              render_markdown(deps, repo, args.output, args.include_dev, args.include_build,
                              ~args.include_optional, files, symlinks)
                  = [md EXCEPT !.include_optional = ~args.include_optional]

\* a run with --include-optional that lists two dependencies
C7_Witness ==
    /\ Finished
    /\ args.include_optional
    /\ md.include_optional
    /\ Len(deps) = 2

\* the bytes safe_read_text keeps of a file: all of them up to the ceiling of
\* 512000, else the first 512000 followed by the marker
KeptBytes(data) ==
    IF ByteLen(data) > DEFAULT_MAX_BYTES
    THEN Concat(TakeBytes(data, DEFAULT_MAX_BYTES), TRUNCATED_MARKER)
    ELSE data

\* d is well-formed UTF-8: ASCII and two-byte characters only
ValidUtf8(d) ==
    \A i \in 1..Len(d) :
        \/ IsAscii(d[i].b)
        \/ IsLead2(d[i].b) /\ d[i].n = 1 /\ i < Len(d) /\ IsContinuation(d[i + 1].b)
        \/ IsContinuation(d[i].b) /\ d[i].n = 1 /\ i > 1 /\ IsLead2(d[i - 1].b)

NoReplacement(t) == \A i \in 1..Len(t) : t[i].b # REPLACEMENT_CHARACTER

EndsWithMarker(t) ==
    /\ Len(t) >= Len(TRUNCATED_MARKER)
    /\ SubSeq(t, Len(t) - Len(TRUNCATED_MARKER) + 2, Len(t)) = Tail(TRUNCATED_MARKER)
    /\ t[Len(t) - Len(TRUNCATED_MARKER) + 1].b = 10
    /\ t[Len(t) - Len(TRUNCATED_MARKER) + 1].n >= 2

ResolverFailed == cargo.returncode # 0

LacksResolve == cargo.returncode = 0 /\ Doc.resolve.shape # "object"

\* C9: when the resolver exits non-zero or its document lacks the resolve graph, the
\* run aborts at once with a diagnostic and a non-zero status, the resolver having
\* been spawned once, and nothing is written or printed; the file is written only
\* after loader, catalogue builder, selector and renderer completed in that order.
C9_FatalAbort ==
    /\ cargo_calls <= 1
    /\ pc # "main" => cargo_calls = 1
    /\ ResolverFailed => pc \in {"main", "exited"} /\ stages = <<>>
    /\ LacksResolve =>
          /\ pc \in {"main", "collect_packages", "collect_resolve_nodes", "exited"}
          /\ ~Selected /\ ~Rendered
    /\ (ResolverFailed \/ LacksResolve) =>
          /\ out_file = <<>> /\ stdout = <<>>
          /\ pc = "exited" => exit_status = 1 /\ stderr # None
    /\ (out_file # <<>> \/ stdout # <<>>) =>
          /\ stages = <<"run_cargo_metadata", "collect_packages", "collect_resolve_nodes",
                        "direct_deps_of_roots", "render_markdown">>
          /\ exit_status = 0 /\ stderr = None
          /\ out_file = <<[path |-> <<"/", args.output>>, text |-> md]>>
          /\ Len(stdout) = 1

\* the resolver exited with status 101: the run has ended with status 1
C9_Witness ==
    /\ cargo.returncode = 101
    /\ pc = "exited" /\ exit_status = 1 /\ cargo_calls = 1
    /\ stderr = "ERROR: cargo metadata failed (exit nonzero)."
    /\ out_file = <<>> /\ stdout = <<>>

\* the path a declared license-file denotes
DeclaredPath(p) ==
    IF IsAbsolute(p.license_file) THEN p.license_file
    ELSE Resolve(Parent(p.manifest_path) \o p.license_file, symlinks)

DeclaredIsRegularFile(p) ==
    \E e \in Range(files) :
        e.kind = "file" /\ e.path = Resolve(DeclaredPath(p), symlinks)

\* the regular files of the package directory whose name matches a pattern
DiscoveredTargets(p) ==
    {Resolve(e.path, symlinks) :
        e \in {x \in Range(files) :
                 /\ Parent(x.path) = Resolve(Parent(p.manifest_path), symlinks)
                 /\ \E k \in 1..Len(LICENSE_CANDIDATE_PATTERNS) :
                       Matches(LICENSE_CANDIDATE_PATTERNS[k], Codes(Name(x.path)))
                 /\ \E t \in Range(files) :
                       t.kind = "file" /\ t.path = Resolve(x.path, symlinks)}}

\* the license files rendered for the i-th dependency, in order
RenderedPaths(i) ==
    LET mine == SelectSeq(reads, LAMBDA r : r.pkg_id = deps[i].pkg_id)
    IN [k \in 1..Len(mine) |-> mine[k].path]

====
